---- MODULE Spec2Model ----
(***************************************************************************)
(* Latin hypercube sampling, skopt/samples/lhs.py: Lhs.generate and        *)
(* Lhs._lhs_normalized as a state machine.                                 *)
(*                                                                         *)
(* Numbers.  A unit-cube value is held as an integer count of grid steps, *)
(* Scale steps to 1.0, where Scale = 2 * n_samples * UGrid: a stratum is   *)
(* 2 * UGrid steps wide, rng.rand yields the multiples of 1 / UGrid in     *)
(* [0, 1), and the stratum midpoint is a whole number of steps.  Domain    *)
(* and scoring values of numeric columns are held in the same steps.      *)
(* Distances are held squared and correlations as squared fractions:      *)
(* both are order preserving on the non-negative values the code compares *)
(* (arithmetic is exact: floating-point rounding is not modelled).        *)
(***************************************************************************)
EXTENDS Integers, Sequences, FiniteSets

\* ---------------------------------------------------------------- bounds
MaxDim == 3
MaxSamples == 3
MaxIter == 2
UGrid == 2
RngMod == 8
NumCats == 2

VARIABLES
  lhs_type,      \* self.lhs_type
  criterion,     \* self.criterion ("None" stands for None)
  iterations,    \* self.iterations
  n_samples,     \* argument n_samples
  n_dim,         \* space.n_dims
  space_kind,    \* "continuous": every dimension Real; "mixed": the last one Categorical
  random_state,  \* argument random_state: [kind: "int" | "instance" | "none", seed]
  gen_state,     \* state of the caller's RandomState instance / numpy's global one
  mode,          \* the space's active transformer
  transformer,   \* local `transformer`: the mode saved at entry
  pc,            \* "idle" | "loop" | "done" | "error"
  i,             \* loop iterations completed
  h_opt,         \* local h_opt
  mincorr,       \* local mincorr
  maxdist,       \* local maxdist
  minratio,      \* local minratio
  result,        \* the returned layout
  err,           \* the raised error
  cands,         \* history: the domain layout of every candidate of this call
  last_lhs,      \* history: the last _lhs_normalized call [pre, post]
  n_lhs,         \* history: _lhs_normalized calls made in this call
  n_scored,      \* history: candidates scored in this call
  entry_gen,     \* history: gen_state when generate was entered
  call,          \* which generate call this is
  first_call,    \* history: outcome of the first call
  conv           \* history: the conversions of this call, [op, mode] each

vars == <<lhs_type, criterion, iterations, n_samples, n_dim, space_kind,
          random_state, gen_state, mode, transformer, pc, i, h_opt, mincorr,
          maxdist, minratio, result, err, cands, last_lhs, n_lhs, n_scored,
          entry_gen, call, first_call, conv>>

config == <<lhs_type, criterion, iterations, n_samples, n_dim, space_kind,
            random_state>>

NoLayout == <<>>
NoScore == [kind |-> "unset", num |-> 0, den |-> 1]

\* ------------------------------------------------------- random source
\* One step of the generator: a full-period congruential map on 0..RngMod-1.
RngNext(g) == (13 * g + 5) % RngMod

RECURSIVE RngSkip(_, _)
RngSkip(g, k) == IF k = 0 THEN g ELSE RngSkip(RngNext(g), k - 1)

\* The next draw of an integer in 0..k-1 from state g (the state moves on).
RandInt(g, k) == (RngNext(g) * k) \div RngMod

\* RandomState(seed): the state a fresh generator starts in.
SeedState(seed) == seed % RngMod

\* A generator that ignores the seed and shares the caller's / global state.
CheckRandomStateShared(rs, g) == [shared |-> TRUE, state |-> g]

\* check_random_state(random_state): an int seeds a fresh generator, an
\* instance is used as is, None is numpy's global generator.
CheckRandomState(rs, g) ==
  IF rs.kind = "int"
    THEN [shared |-> FALSE, state |-> SeedState(rs.seed)]
    ELSE [shared |-> TRUE, state |-> g]

\* rng.rand(rows, cols): row-major draws, each in 0..UGrid-1 (u = draw / UGrid).
Rand(g, rows, cols) ==
  LET at == [k \in 0..(rows * cols) |-> RngSkip(g, k)]
  IN [r \in 1..rows |-> [c \in 1..cols |->
        RandInt(at[(r - 1) * cols + (c - 1)], UGrid)]]

Swap(x, a, b) == [x EXCEPT ![a] = x[b], ![b] = x[a]]

\* rng.permutation(range(n)): shuffle from the last index down, k is the
\* 1-based index being settled.
RECURSIVE Shuffle(_, _, _)
Shuffle(x, g, k) ==
  IF k <= 1 THEN x
  ELSE Shuffle(Swap(x, k, RandInt(g, k) + 1), RngNext(g), k - 1)

Permutation(g, n) == Shuffle([r \in 1..n |-> r], g, n)

\* random_permute_matrix(h, random_state): every column reordered by a
\* permutation of its own, drawn one column after the other.
RandomPermuteMatrix(h, g, rows, cols) ==
  LET order == [c \in 1..cols |-> Permutation(RngSkip(g, (c - 1) * (rows - 1)), rows)]
  IN [r \in 1..rows |-> [c \in 1..cols |-> h[order[c][r]][c]]]

\* ------------------------------------------------------------- sampler
Scale == 2 * n_samples * UGrid

\* x[:n_samples][r]: the start of stratum r (1-based), np.diff(x): its width.
StratumStart(r) == (r - 1) * 2 * UGrid
StratumWidth == 2 * UGrid

\* A classic value that forgets to scale the offset by the stratum width.
ClassicValueUnscaled(u, r) == 2 * n_samples * u + StratumStart(r)

\* h[:, j] = u[:, j] * np.diff(x) + x[:n_samples]   (u = draw / UGrid)
ClassicValue(u, r) == 2 * u + StratumStart(r)

\* A centered value that adds the whole stratum width, not half of it.
CenteredValueEdge(r) == StratumWidth + StratumStart(r)

\* h[:, j] = np.diff(x) / 2.0 + x[:n_samples]
CenteredValue(r) == StratumWidth \div 2 + StratumStart(r)

ValidLhsType(t) == t \in {"centered", "classic"}

\* Lhs._lhs_normalized from generator state g of the caller's / global
\* generator: rand is drawn before lhs_type is looked at; ok = FALSE is the
\* ValueError("Wrong lhs_type"); gen is the shared generator's state after.
LhsNormalized(g) ==
  LET rng == CheckRandomState(random_state, g)
      u == Rand(rng.state, n_samples, n_dim)
      g1 == IF rng.shared THEN RngSkip(g, n_samples * n_dim) ELSE g
      h == [r \in 1..n_samples |-> [c \in 1..n_dim |->
              IF lhs_type = "centered" THEN CenteredValue(r)
                                       ELSE ClassicValue(u[r][c], r)]]
      prng == CheckRandomState(random_state, g1)
      g2 == IF prng.shared THEN RngSkip(g1, n_dim * (n_samples - 1)) ELSE g1
  IN IF ~ValidLhsType(lhs_type)
       THEN [ok |-> FALSE, pre |-> NoLayout, post |-> NoLayout, gen |-> g1]
       ELSE [ok |-> TRUE, pre |-> h,
             post |-> RandomPermuteMatrix(h, prng.state, n_samples, n_dim),
             gen |-> g2]

\* --------------------------------------------------------------- space
is_partly_categorical == space_kind = "mixed"
IsCategorical(c) == space_kind = "mixed" /\ c = n_dim

\* The domain value of category k (0-based): no number a numeric column holds.
Category(k) == -(k + 1)
CategoryIndex(v) == -v - 1

\* np.round on num / den (num >= 0, den > 0): halves go to the even neighbour.
RoundHalfEven(num, den) ==
  LET q == num \div den
      r == num % den
  IN IF 2 * r < den THEN q
     ELSE IF 2 * r > den THEN q + 1
     ELSE IF q % 2 = 0 THEN q ELSE q + 1

\* Real dimension c is (low, high) = (c, 2c).
RealLow(c) == c
RealWidth(c) == c

\* space.inverse_transform under the active mode m, one cell of column c.
InverseCell(m, c, v) ==
  IF m = "normalize"
    THEN IF IsCategorical(c)
           THEN Category(RoundHalfEven(v * (NumCats - 1), Scale))
           ELSE RealLow(c) * Scale + v * RealWidth(c)
  ELSE IF m = "label" /\ IsCategorical(c)
    THEN Category(v \div Scale)
  ELSE v

\* space.transform under the active mode m, one cell of column c.
TransformCell(m, c, v) ==
  IF m = "normalize"
    THEN IF IsCategorical(c)
           THEN (CategoryIndex(v) * Scale) \div (IF NumCats > 1 THEN NumCats - 1 ELSE 1)
           ELSE (v - RealLow(c) * Scale) \div RealWidth(c)
  ELSE IF m = "label" /\ IsCategorical(c)
    THEN CategoryIndex(v) * Scale
  ELSE v

InverseTransform(m, h) ==
  [r \in 1..n_samples |-> [c \in 1..n_dim |-> InverseCell(m, c, h[r][c])]]

Transform(m, h) ==
  [r \in 1..n_samples |-> [c \in 1..n_dim |-> TransformCell(m, c, h[r][c])]]

\* The layout a candidate is scored on (lines 95-97, 113-115, 131-133).
ToScoring(h) == IF is_partly_categorical THEN Transform("label", h) ELSE h

\* A switch to trans_normalize that is left out when the mode is trans_cat_int.
SetNormalizeUnlessLabel(m) == IF m = "label" THEN m ELSE "normalize"

\* lines 76-77, 85, 93, 111, 129: space.set_transformer(trans_normalize)
SetNormalize(m) == "normalize"

\* lines 95-96, 102-103 (113-114, 120-121, 131-132, 139-140):
\* if space.is_partly_categorical: space.set_transformer(trans_cat_int)
SetCatInt(m) == IF is_partly_categorical THEN "label" ELSE m

\* lines 95-97: h = space.transform(h) under the active mode m, when the
\* space is partly categorical.
TransformIfCategorical(m, h) ==
  IF is_partly_categorical THEN Transform(m, h) ELSE h

\* -------------------------------------------------------------- scores
\* A score is [kind, num, den]: "fin" is num / den (num >= 0, den > 0),
\* "inf" is np.inf, "nan" is np.nan.
Fin(a, b) == [kind |-> "fin", num |-> a, den |-> b]
Inf == [kind |-> "inf", num |-> 1, den |-> 1]
NaN == [kind |-> "nan", num |-> 0, den |-> 1]

\* a / b < c / d on non-negative fractions, by their continued fractions
\* (no product is formed).
RECURSIVE FracLt(_, _, _, _)
FracLt(a, b, c, d) ==
  LET qa == a \div b
      qc == c \div d
      ra == a % b
      rc == c % d
  IN IF qa # qc THEN qa < qc
     ELSE IF rc = 0 THEN FALSE
     ELSE IF ra = 0 THEN TRUE
     ELSE FracLt(d, rc, b, ra)

\* x < y on floats: every comparison with nan is False.
Lt(x, y) ==
  IF x.kind = "nan" \/ y.kind = "nan" THEN FALSE
  ELSE IF x.kind = "inf" THEN FALSE
  ELSE IF y.kind = "inf" THEN TRUE
  ELSE FracLt(x.num, x.den, y.num, y.den)

\* np.max / np.min of a non-empty set of scores: nan if any is nan.
MaxOf(S) ==
  IF \E x \in S : x.kind = "nan" THEN NaN
  ELSE CHOOSE x \in S : \A y \in S : ~Lt(x, y)
MinOf(S) ==
  IF \E x \in S : x.kind = "nan" THEN NaN
  ELSE CHOOSE x \in S : \A y \in S : ~Lt(y, x)

\* x / y on non-negative floats held as fin scores of denominator 1.
Div(x, y) ==
  IF y.num = 0 THEN (IF x.num = 0 THEN NaN ELSE Inf)
  ELSE Fin(x.num, y.num)

RECURSIVE SumTo(_, _)
SumTo(f, n) == IF n = 0 THEN 0 ELSE f[n] + SumTo(f, n - 1)

\* spatial.distance.pdist(h, 'euclidean'): the distances of all row pairs,
\* squared.
Dist2(h, a, b) == SumTo([c \in 1..n_dim |-> (h[a][c] - h[b][c]) * (h[a][c] - h[b][c])], n_dim)
PdistPairs(h) == {<<a, b>> \in (1..n_samples) \X (1..n_samples) : a < b}
Pdist(h) == {Fin(Dist2(h, p[1], p[2]), 1) : p \in PdistPairs(h)}

\* np.corrcoef(h.T)[a][b], by n^2 times the covariance of columns a and b.
Cov(h, a, b) ==
  n_samples * SumTo([r \in 1..n_samples |-> h[r][a] * h[r][b]], n_samples)
    - SumTo([r \in 1..n_samples |-> h[r][a]], n_samples)
      * SumTo([r \in 1..n_samples |-> h[r][b]], n_samples)

\* r[a][b] is nan when a column has no variance.
CorrIsNaN(h, a, b) == Cov(h, a, a) = 0 \/ Cov(h, b, b) = 0
\* r[a][b] == 1
CorrIsOne(h, a, b) ==
  /\ ~CorrIsNaN(h, a, b)
  /\ Cov(h, a, b) > 0
  /\ Cov(h, a, b) * Cov(h, a, b) = Cov(h, a, a) * Cov(h, b, b)
\* np.abs(r[a][b]), squared.
CorrAbs(h, a, b) ==
  IF CorrIsNaN(h, a, b) THEN NaN
  ELSE Fin(Cov(h, a, b) * Cov(h, a, b), Cov(h, a, a) * Cov(h, b, b))

Cells == (1..n_dim) \X (1..n_dim)

\* np.abs(r[r != 1]): the entries that are not exactly 1 (nan != 1 holds).
CorrNotOne(h) == {CorrAbs(h, p[1], p[2]) : p \in {q \in Cells : ~CorrIsOne(h, q[1], q[2])}}

\* np.abs(r - np.eye(r.shape[0])): the diagonal less 1, the rest as is.
CorrLessEye(h) ==
  {CorrAbs(h, p[1], p[2]) : p \in {q \in Cells : q[1] # q[2]}}
    \cup {IF CorrIsNaN(h, c, c) THEN NaN ELSE Fin(0, 1) : c \in 1..n_dim}

\* ------------------------------------------------------------ generate
Criteria == {"correlation", "maximin", "ratio"}

\* A short circuit that looks at the criterion alone.
ShortCircuitNoneOnly(c, n) == c = "None"

\* line 78: self.criterion is None or n_samples == 1
ShortCircuit(c, n) == c = "None" \/ n = 1

\* An acceptance test that keeps the larger minimum distance.
MaximinImprovesFlipped(d, best) == Lt(best, MinOf(d))

\* An acceptance test that keeps the smaller ratio.
RatioImprovesFlipped(ratio, best) == Lt(ratio, best)

\* line 99: np.max(np.abs(r[r != 1])) < mincorr
CorrImproves(h, best) == Lt(MaxOf(CorrNotOne(h)), best)
\* line 117: maxdist > np.min(d)
MaximinImproves(d, best) == Lt(MinOf(d), best)
\* line 136: minratio < ratio
RatioImproves(ratio, best) == Lt(best, ratio)

\* lines 68-77 and the sampler call of line 79 / 84, common to both branches.
Enter(s) ==
  /\ transformer' = mode
  /\ entry_gen' = gen_state
  /\ gen_state' = s.gen
  /\ n_lhs' = n_lhs + 1
  /\ last_lhs' = [ok |-> s.ok, pre |-> s.pre, post |-> s.post]
  /\ UNCHANGED <<config, call, first_call, i, n_scored>>

\* The ValueError of line 160 leaving generate: nothing restores the mode.
RaiseLhsType ==
  /\ pc' = "error"
  /\ err' = "lhs_type"
  /\ mode' = SetNormalize(mode)
  /\ UNCHANGED <<h_opt, result, cands, mincorr, maxdist, minratio, conv>>

\* lines 78-82: one candidate, converted and returned.  (\E x \in {e} names
\* the value e, here and below.)
SingleShot ==
  /\ pc = "idle"
  /\ ShortCircuit(criterion, n_samples)
  /\ \E s \in {LhsNormalized(gen_state)} :
       /\ Enter(s)
       /\ IF s.ok
            THEN \E m \in {SetNormalize(mode)} :
                 \E h \in {InverseTransform(m, s.post)} :
                 /\ result' = h
                 /\ cands' = <<h>>
                 /\ conv' = {[op |-> "to_domain", mode |-> m]}
                 /\ mode' = transformer'
                 /\ pc' = "done"
                 /\ UNCHANGED <<h_opt, err, mincorr, maxdist, minratio>>
            ELSE RaiseLhsType

\* lines 83-89, 106-107, 123-124, 142-144: the first candidate and the
\* dispatch on the criterion.
StartOptimize ==
  /\ pc = "idle"
  /\ ~ShortCircuit(criterion, n_samples)
  /\ \E s \in {LhsNormalized(gen_state)} :
       /\ Enter(s)
       /\ IF s.ok
            THEN \E m \in {SetNormalize(SetNormalize(mode))} :
                 \E h \in {InverseTransform(m, s.post)} :
                 /\ h_opt' = h
                 /\ cands' = <<h>>
                 /\ conv' = {[op |-> "to_domain", mode |-> m]}
                 /\ mode' = m
                 /\ mincorr' = IF criterion = "correlation" THEN Inf ELSE mincorr
                 /\ maxdist' = IF criterion = "maximin" THEN Fin(0, 1) ELSE maxdist
                 /\ minratio' = IF criterion = "ratio" THEN Inf ELSE minratio
                 /\ pc' = IF criterion \in Criteria THEN "loop" ELSE "error"
                 /\ err' = IF criterion \in Criteria THEN err ELSE "criterion"
                 /\ UNCHANGED result
            ELSE RaiseLhsType

\* What every loop iteration does before scoring (lines 92-97): s is the
\* sampler's outcome, dom the candidate in domain values, m the mode the
\* candidate is scored under.  The sampler cannot raise here: line 84 has
\* run it with the same lhs_type.
IterBegin(s, dom, m) ==
  /\ s.ok
  /\ i' = i + 1
  /\ gen_state' = s.gen
  /\ n_lhs' = n_lhs + 1
  /\ last_lhs' = [ok |-> s.ok, pre |-> s.pre, post |-> s.post]
  /\ cands' = Append(cands, dom)
  /\ mode' = m
  /\ UNCHANGED <<config, call, first_call, transformer, entry_gen, result>>

\* The conversions of one iteration: to domain values under m1, to the
\* scoring layout under m2 and, for a candidate that is kept, back under
\* the mode lines 102-103 set.
Converted(m1, m2, kept) ==
  conv' = conv
    \cup {[op |-> "to_domain", mode |-> m1]}
    \cup (IF is_partly_categorical
            THEN {[op |-> "encode", mode |-> m2]} ELSE {})
    \cup (IF is_partly_categorical /\ kept
            THEN {[op |-> "decode", mode |-> SetCatInt(m2)]} ELSE {})

\* A copy of the scoring layout that is never decoded.
KeptUndecoded(h) == h

\* lines 101-104, 119-122, 138-141: h.copy(), decoded when categorical.
Kept(h) == IF is_partly_categorical THEN InverseTransform("label", h) ELSE h

\* np.max / np.min of an empty array raises ValueError inside the loop.
RaiseEmpty ==
  /\ pc' = "error"
  /\ err' = "empty"
  /\ UNCHANGED <<h_opt, mincorr, maxdist, minratio, n_scored>>

\* lines 90-104
IterCorrelation ==
  /\ pc = "loop"
  /\ i < iterations
  /\ criterion = "correlation"
  /\ \E s \in {LhsNormalized(gen_state)} :
     \E m1 \in {SetNormalize(mode)} :
     \E dom \in {InverseTransform(m1, s.post)} :
     \E m2 \in {SetCatInt(m1)} :
     \E h \in {TransformIfCategorical(m2, dom)} :
        /\ IterBegin(s, dom, m2)
        /\ IF CorrNotOne(h) = {}
             THEN RaiseEmpty /\ Converted(m1, m2, FALSE)
             ELSE /\ n_scored' = n_scored + 1
                  /\ IF CorrImproves(h, mincorr)
                       THEN /\ mincorr' = MaxOf(CorrLessEye(h))
                            /\ h_opt' = Kept(h)
                            /\ Converted(m1, m2, TRUE)
                       ELSE /\ UNCHANGED <<mincorr, h_opt>>
                            /\ Converted(m1, m2, FALSE)
                  /\ UNCHANGED <<pc, err, maxdist, minratio>>

\* lines 109-122
IterMaximin ==
  /\ pc = "loop"
  /\ i < iterations
  /\ criterion = "maximin"
  /\ \E s \in {LhsNormalized(gen_state)} :
     \E m1 \in {SetNormalize(mode)} :
     \E dom \in {InverseTransform(m1, s.post)} :
     \E m2 \in {SetCatInt(m1)} :
     \E h \in {TransformIfCategorical(m2, dom)} :
     \E d \in {Pdist(h)} :
        /\ IterBegin(s, dom, m2)
        /\ IF d = {}
             THEN RaiseEmpty /\ Converted(m1, m2, FALSE)
             ELSE /\ n_scored' = n_scored + 1
                  /\ IF MaximinImproves(d, maxdist)
                       THEN /\ maxdist' = MinOf(d)
                            /\ h_opt' = Kept(h)
                            /\ Converted(m1, m2, TRUE)
                       ELSE /\ UNCHANGED <<maxdist, h_opt>>
                            /\ Converted(m1, m2, FALSE)
                  /\ UNCHANGED <<pc, err, mincorr, minratio>>

\* lines 127-141
IterRatio ==
  /\ pc = "loop"
  /\ i < iterations
  /\ criterion = "ratio"
  /\ \E s \in {LhsNormalized(gen_state)} :
     \E m1 \in {SetNormalize(mode)} :
     \E dom \in {InverseTransform(m1, s.post)} :
     \E m2 \in {SetCatInt(m1)} :
     \E h \in {TransformIfCategorical(m2, dom)} :
     \E p \in {Pdist(h)} :
        /\ IterBegin(s, dom, m2)
        /\ IF p = {}
             THEN RaiseEmpty /\ Converted(m1, m2, FALSE)
             ELSE \E ratio \in {Div(MaxOf(p), MinOf(p))} :
                  /\ n_scored' = n_scored + 1
                  /\ IF RatioImproves(ratio, minratio)
                       THEN /\ minratio' = ratio
                            /\ h_opt' = Kept(h)
                            /\ Converted(m1, m2, TRUE)
                       ELSE /\ UNCHANGED <<minratio, h_opt>>
                            /\ Converted(m1, m2, FALSE)
                  /\ UNCHANGED <<pc, err, mincorr, maxdist>>

\* lines 145-146: the mode is restored and the held layout returned.
Return ==
  /\ pc = "loop"
  /\ i = iterations
  /\ mode' = transformer
  /\ result' = h_opt
  /\ pc' = "done"
  /\ UNCHANGED <<config, gen_state, transformer, i, h_opt, mincorr, maxdist,
                 minratio, err, cands, last_lhs, n_lhs, n_scored, entry_gen,
                 call, first_call, conv>>

NoLhs == [ok |-> FALSE, pre |-> NoLayout, post |-> NoLayout]

\* The caller calls generate once more with the same arguments on the same
\* dimensions and generator.
CallAgain ==
  /\ pc \in {"done", "error"}
  /\ call = 1
  /\ call' = 2
  /\ first_call' = [pc |-> pc, result |-> result, err |-> err]
  /\ pc' = "idle"
  /\ i' = 0
  /\ h_opt' = NoLayout
  /\ mincorr' = NoScore
  /\ maxdist' = NoScore
  /\ minratio' = NoScore
  /\ result' = NoLayout
  /\ err' = "none"
  /\ cands' = <<>>
  /\ last_lhs' = NoLhs
  /\ n_lhs' = 0
  /\ n_scored' = 0
  /\ transformer' = "unset"
  /\ entry_gen' = gen_state
  /\ conv' = {}
  /\ UNCHANGED <<config, gen_state, mode>>

RandomStates ==
  [kind : {"int"}, seed : 0..(RngMod - 1)]
    \cup [kind : {"instance", "none"}, seed : {0}]

Init ==
  /\ lhs_type \in {"classic", "centered", "bogus"}
  /\ criterion \in Criteria \cup {"None", "bogus"}
  /\ iterations \in 1..MaxIter
  /\ n_samples \in 1..MaxSamples
  /\ n_dim \in 1..MaxDim
  /\ space_kind \in {"continuous", "mixed"}
  /\ random_state \in RandomStates
  /\ gen_state \in IF random_state.kind = "int" THEN {0} ELSE 0..(RngMod - 1)
  /\ mode = "identity"
  /\ transformer = "unset"
  /\ pc = "idle"
  /\ i = 0
  /\ h_opt = NoLayout
  /\ mincorr = NoScore
  /\ maxdist = NoScore
  /\ minratio = NoScore
  /\ result = NoLayout
  /\ err = "none"
  /\ cands = <<>>
  /\ last_lhs = NoLhs
  /\ n_lhs = 0
  /\ n_scored = 0
  /\ entry_gen = gen_state
  /\ call = 1
  /\ first_call = [pc |-> "idle", result |-> NoLayout, err |-> "none"]
  /\ conv = {}

Next ==
  \/ SingleShot
  \/ StartOptimize
  \/ IterCorrelation
  \/ IterMaximin
  \/ IterRatio
  \/ Return
  \/ CallAgain

Spec == Init /\ [][Next]_vars

\* -------------------------------------------------------------- claims
Terminated == pc \in {"done", "error"}

\* The scores of a candidate held in domain values.
MinDist(h) == MinOf(Pdist(ToScoring(h)))
Ratio(h) == Div(MaxOf(Pdist(ToScoring(h))), MinOf(Pdist(ToScoring(h))))
OffDiagonal(h) == {CorrAbs(h, p[1], p[2]) : p \in {q \in Cells : q[1] # q[2]}}
MaxCorr(h) == MaxOf(OffDiagonal(ToScoring(h)))

Generated == {cands[k] : k \in 1..Len(cands)}

\* C1: with criterion 'maximin' and n_samples >= 2, the returned layout is
\* one of the call's candidates and its minimum pairwise distance is not
\* below that of any candidate generated during the call.
C1_ReturnsBestMaximin ==
  (pc = "done" /\ criterion = "maximin" /\ n_samples >= 2) =>
    /\ result \in Generated
    /\ \A h \in Generated : ~Lt(MinDist(result), MinDist(h))

\* C2: with criterion 'ratio' and n_samples >= 2, the returned layout is one
\* of the call's candidates and its max / min distance ratio is not above
\* that of any candidate generated during the call.
C2_ReturnsBestRatio ==
  (pc = "done" /\ criterion = "ratio" /\ n_samples >= 2) =>
    /\ result \in Generated
    /\ \A h \in Generated : ~Lt(Ratio(h), Ratio(result))

\* C3: with criterion 'correlation' and n_samples >= 2, the returned
\* layout's maximum absolute off-diagonal correlation is not above that of
\* any candidate generated during the call, the pre-loop one included.
C3_ReturnsBestCorrelation ==
  (pc = "done" /\ criterion = "correlation" /\ n_samples >= 2 /\ n_dim >= 2) =>
    \A h \in Generated : ~Lt(MaxCorr(h), MaxCorr(result))

\* C4: on every exit of generate, by return or by a raised error, the
\* space's mode is the mode saved at entry.
C4_ModeRestoredOnEveryExit == Terminated => mode = transformer

\* C5: a criterion that is neither None nor one of the three makes generate
\* raise, for every n_samples >= 1, before any candidate is generated.
C5_BadCriterionRaisesBeforeSampling ==
  (criterion \notin Criteria \cup {"None"} /\ Terminated) =>
    pc = "error" /\ n_lhs = 0

\* C6: an unknown lhs_type raises before anything is drawn, so the caller's
\* generator is in the state it was in when generate was entered.
C6_BadLhsTypeDrawsNothing ==
  (~ValidLhsType(lhs_type) /\ pc = "error") => gen_state = entry_gen

\* Exactly one entry of column c in every stratum, and every entry in [0, 1).
Stratified(h) ==
  \A c \in 1..n_dim :
    /\ \A r \in 1..n_samples : 0 <= h[r][c] /\ h[r][c] < Scale
    /\ \A j \in 1..n_samples :
         Cardinality({r \in 1..n_samples :
                        /\ StratumStart(j) <= h[r][c]
                        /\ h[r][c] < StratumStart(j) + StratumWidth}) = 1

\* C7: every unit layout _lhs_normalized builds has, in every column,
\* exactly one entry in each of the n_samples strata, before and after the
\* per-column permutation.
C7_Stratified ==
  last_lhs.ok => Stratified(last_lhs.pre) /\ Stratified(last_lhs.post)

C7_Witness ==
  /\ last_lhs.ok
  /\ lhs_type = "classic"
  /\ n_samples = MaxSamples
  /\ n_dim = MaxDim
  /\ last_lhs.pre # last_lhs.post
  /\ \E r \in 1..n_samples : last_lhs.pre[r][1] # StratumStart(r)

\* C8: when criterion is None or n_samples = 1, generate calls the sampler
\* once, scores nothing, runs no loop iteration and returns that one
\* candidate converted to domain values, whatever iterations and criterion.
C8_ShortCircuit ==
  (criterion = "None" \/ n_samples = 1) =>
    /\ pc # "loop" /\ i = 0 /\ n_scored = 0
    /\ Terminated => n_lhs = 1
    /\ (Terminated /\ ValidLhsType(lhs_type)) => pc = "done"
    /\ pc = "done" =>
         /\ cands = <<result>>
         /\ result = InverseTransform("normalize", last_lhs.post)

C8_Witness ==
  /\ pc = "done"
  /\ n_samples = 1
  /\ criterion \in Criteria
  /\ iterations = MaxIter
  /\ n_lhs = 1

\* C9: two calls with the same arguments and the same integer seed end the
\* same way with the same layout, for every criterion.
C9_Reproducible ==
  (call = 2 /\ random_state.kind = "int" /\ Terminated) =>
    first_call = [pc |-> pc, result |-> result, err |-> err]

C9_Witness ==
  /\ call = 2
  /\ random_state.kind = "int"
  /\ pc = "done"
  /\ criterion = "correlation"
  /\ lhs_type = "classic"
  /\ n_samples = MaxSamples
  /\ n_dim = MaxDim
  /\ n_scored = iterations

\* C10: with criterion 'maximin' the minimum pairwise distance of the held
\* layout never decreases over a loop iteration, and the returned layout's
\* is not below that of the first (pre-loop) candidate.
C10_MaximinMonotone ==
  [][(criterion = "maximin" /\ pc = "loop") =>
       /\ ~Lt(MinDist(h_opt'), MinDist(h_opt))
       /\ pc' = "done" => ~Lt(MinDist(result'), MinDist(cands[1]))]_vars

C10_Witness ==
  /\ pc = "done"
  /\ criterion = "maximin"
  /\ iterations = MaxIter
  /\ n_scored = iterations
  /\ \E h \in Generated : Lt(MinDist(h), MinDist(cands[1]))
  /\ \E h \in Generated : Lt(MinDist(cands[1]), MinDist(h))

\* C11: with criterion 'ratio' the max / min distance ratio of the held
\* layout does not increase over a loop iteration.
C11_RatioMonotone ==
  [][(criterion = "ratio" /\ pc = "loop") =>
       ~Lt(Ratio(h_opt), Ratio(h_opt'))]_vars

C11_Witness ==
  /\ pc = "done"
  /\ criterion = "ratio"
  /\ iterations = MaxIter
  /\ n_scored = iterations
  /\ \E h \in Generated : Lt(Ratio(h), Ratio(cands[1]))
  /\ \E h \in Generated : Lt(Ratio(cands[1]), Ratio(h))

\* The stratum midpoints (2j + 1) / (2 * n_samples), j = 0..n_samples-1, in
\* grid steps.
Midpoints == {(2 * j + 1) * UGrid : j \in 0..(n_samples - 1)}

\* Column c of h holds every midpoint exactly once.
MidpointColumn(h, c) ==
  /\ {h[r][c] : r \in 1..n_samples} = Midpoints
  /\ \A a, b \in 1..n_samples : h[a][c] = h[b][c] => a = b

\* C12: with lhs_type 'centered' every column of the unit layout is a
\* permutation of the stratum midpoints, before and after the per-column
\* permutation, whatever the random source yields.
C12_CenteredMidpoints ==
  (last_lhs.ok /\ lhs_type = "centered") =>
    \A c \in 1..n_dim :
      MidpointColumn(last_lhs.pre, c) /\ MidpointColumn(last_lhs.post, c)

C12_Witness ==
  /\ last_lhs.ok
  /\ lhs_type = "centered"
  /\ n_samples = MaxSamples
  /\ n_dim = MaxDim
  /\ random_state.kind = "instance"
  /\ \E c \in 1..n_dim : \E r \in 1..n_samples :
       last_lhs.post[r][c] # last_lhs.pre[r][c]
  /\ \E r \in 1..n_samples : last_lhs.post[r][1] # last_lhs.post[r][n_dim]

\* Layout a scores strictly better than layout b under the criterion.
StrictlyBetter(a, b) ==
  CASE criterion = "maximin" -> Lt(MinDist(b), MinDist(a))
    [] criterion = "ratio" -> Lt(Ratio(a), Ratio(b))
    [] criterion = "correlation" -> Lt(MaxCorr(a), MaxCorr(b))

\* C13: under every criterion a loop candidate replaces the held layout
\* only if its score is strictly better than the held layout's; a candidate
\* that ties with the held layout, the pre-loop one included, is dropped.
C13_ReplacedOnlyByStrictlyBetter ==
  [][(pc = "loop" /\ criterion \in Criteria /\ h_opt' # h_opt) =>
       StrictlyBetter(h_opt', h_opt)]_vars

\* Two scores are the same number.
SameScore(x, y) == x.kind = y.kind /\ ~Lt(x, y) /\ ~Lt(y, x)

\* C14: with criterion 'correlation' a loop candidate that is scored is
\* compared by the maximum absolute value of all off-diagonal entries of
\* its correlation matrix, entries of exactly 1 included; when that is
\* below the running best it becomes the running best, otherwise the
\* running best stays; so the running best never increases.
C14_CompareScoreIsRecorded ==
  [][(criterion = "correlation" /\ pc = "loop" /\ n_dim >= 2
        /\ n_scored' = n_scored + 1) =>
       /\ IF Lt(MaxCorr(cands'[i' + 1]), mincorr)
            THEN /\ SameScore(mincorr', MaxCorr(cands'[i' + 1]))
                 /\ h_opt' = cands'[i' + 1]
            ELSE /\ SameScore(mincorr', mincorr)
                 /\ h_opt' = h_opt
       /\ ~Lt(mincorr, mincorr')]_vars

\* Every cell of h is a value of its dimension: a category in a categorical
\* column, a number of [low, high) in a numeric one.
InDomain(h) ==
  \A r \in 1..n_samples : \A c \in 1..n_dim :
    IF IsCategorical(c)
      THEN h[r][c] \in {Category(k) : k \in 0..(NumCats - 1)}
      ELSE /\ RealLow(c) * Scale <= h[r][c]
           /\ h[r][c] < (RealLow(c) + RealWidth(c)) * Scale

\* C15: on a space with a categorical dimension, under every criterion, the
\* held layout is in domain values after every step and so is the returned
\* layout: it is the domain layout of one of the call's candidates, never
\* its label-coded scoring layout.
C15_ReturnsDomainValues ==
  is_partly_categorical =>
    /\ pc = "loop" => InDomain(h_opt) /\ h_opt \in Generated
    /\ pc = "done" => InDomain(result) /\ result \in Generated

C15_Witness ==
  /\ is_partly_categorical
  /\ pc = "done"
  /\ criterion = "correlation"
  /\ n_dim = MaxDim
  /\ n_samples = MaxSamples
  /\ result # cands[1]
  /\ ToScoring(result) # result

\* C16: with one of the three criteria, n_samples >= 2 and a valid lhs_type
\* the loop never runs past `iterations`, one candidate is generated before
\* the loop and one per iteration, and the call ends by returning after
\* exactly `iterations` iterations and iterations + 1 candidates.
C16_LoopRunsToCompletion ==
  (criterion \in Criteria /\ n_samples >= 2 /\ ValidLhsType(lhs_type)) =>
    /\ pc = "loop" => i <= iterations /\ n_lhs = i + 1 /\ Len(cands) = i + 1
    /\ Terminated =>
         /\ pc = "done"
         /\ i = iterations
         /\ n_lhs = iterations + 1
         /\ Len(cands) = iterations + 1

\* The layout generate returns for the same arguments with criterion None
\* (lines 79-82).
SingleShotLayout ==
  InverseTransform("normalize", LhsNormalized(gen_state).post)

\* C17: with an integer seed every candidate of a call is generated from a
\* fresh generator of that seed, so all candidates of the call are the same
\* layout, and the layout returned under any of the three criteria is the
\* one criterion None returns for the same arguments.
C17_SeedRederived ==
  (random_state.kind = "int" /\ criterion \in Criteria /\ n_samples >= 2) =>
    /\ \A k \in 1..Len(cands) : cands[k] = cands[1]
    /\ pc = "done" => result = SingleShotLayout

C17_Witness ==
  /\ random_state.kind = "int"
  /\ pc = "done"
  /\ criterion = "correlation"
  /\ lhs_type = "classic"
  /\ space_kind = "mixed"
  /\ iterations = MaxIter
  /\ n_samples = MaxSamples
  /\ n_dim = MaxDim
  /\ Len(cands) = iterations + 1
  /\ last_lhs.pre # last_lhs.post

\* C18: every conversion of a unit-cube layout to domain values is made
\* while the space's mode is 'normalize', and every encoding to and decoding
\* from the scoring layout while it is trans_cat_int, also in an iteration
\* that follows one which left the mode at trans_cat_int.
C18_ModeProtocol ==
  \A e \in conv :
    /\ e.op = "to_domain" => e.mode = "normalize"
    /\ e.op \in {"encode", "decode"} => e.mode = "label"

C18_Witness ==
  /\ is_partly_categorical
  /\ criterion = "correlation"
  /\ pc = "loop"
  /\ i = MaxIter
  /\ mode = "label"
  /\ h_opt = cands[i + 1]
  /\ {e.op : e \in conv} = {"to_domain", "encode", "decode"}

====
